---- MODULE Spec2Model ----
(***************************************************************************)
(* A model of the two Airtable helper scripts of the backend:              *)
(*   airtable_lookup.py             point lookup by email / order id /     *)
(*                                  phone, with linked-record expansion    *)
(*   airtable_completed_tracker.py  bulk sync of the "completed" view in   *)
(*                                  bootstrap and incremental mode         *)
(* Python strings are modelled as sequences of one-character strings, so   *)
(* that strip(), lower(), slicing and quote escaping are computed and not  *)
(* assumed.  The remote service is the environment: every request is       *)
(* answered by a nondeterministically chosen outcome.                      *)
(***************************************************************************)
EXTENDS Integers, Sequences, FiniteSets, TLC

\* ------------------------------------------------------------------------
\* Bounds of the model (not program constants)
\* ------------------------------------------------------------------------
MaxPhoneLen == 6
MaxIds == 12
MaxPages == 3
MaxPageSize == 2
MaxTable == 4
MaxValueLen == 3

\* ------------------------------------------------------------------------
\* Python string helpers
\* ------------------------------------------------------------------------
\* Python's None, as a value no character string equals
None == <<"<None>">>

\* str.lower() on the characters the model uses
LowerChar(c) ==
  CASE c = "P" -> "p"
    [] c = "I" -> "i"
    [] c = "E" -> "e"
    [] c = "B" -> "b"
    [] OTHER -> c

Lower(s) == [i \in 1..Len(s) |-> LowerChar(s[i])]

IsSpace(c) == c = " "

RECURSIVE LStrip(_)
LStrip(s) == IF s # <<>> /\ IsSpace(Head(s)) THEN LStrip(Tail(s)) ELSE s

RECURSIVE RStrip(_)
RStrip(s) ==
  IF s # <<>> /\ IsSpace(s[Len(s)]) THEN RStrip(SubSeq(s, 1, Len(s) - 1)) ELSE s

\* str.strip()
Strip(s) == RStrip(LStrip(s))

\* s[:n] and s[n:] (0-based slice bounds as in Python)
SliceTo(s, n) == SubSeq(s, 1, IF n < Len(s) THEN n ELSE Len(s))
SliceFrom(s, n) == SubSeq(s, n + 1, Len(s))

StartsWith(s, p) == Len(s) >= Len(p) /\ SubSeq(s, 1, Len(p)) = p

RECURSIVE Flatten(_)
Flatten(ss) == IF ss = <<>> THEN <<>> ELSE Head(ss) \o Flatten(Tail(ss))

\* ------------------------------------------------------------------------
\* get_israeli_phone_variant
\* ------------------------------------------------------------------------
Prefix972 == <<"9", "7", "2">>

\* the variant, or None when the number is not Israeli
get_israeli_phone_variant_keep_zero(phone) ==
  IF ~StartsWith(phone, Prefix972) \/ Len(phone) < 4
  THEN None
  ELSE SliceTo(phone, 3) \o <<"0">> \o SliceFrom(phone, 3)

get_israeli_phone_variant(phone) ==
  IF ~StartsWith(phone, Prefix972) \/ Len(phone) < 4
  THEN None
  ELSE IF phone[4] = "0"
       THEN SliceTo(phone, 3) \o SliceFrom(phone, 4)
       ELSE SliceTo(phone, 3) \o <<"0">> \o SliceFrom(phone, 3)

\* ------------------------------------------------------------------------
\* State
\* ------------------------------------------------------------------------
VARIABLES
  script,              \* which program runs: "lookup", "tracker", or a function harness
  pc,                  \* position of the process
  stdin,               \* the content of standard input
  creds,               \* AIRTABLE_API_KEY, AIRTABLE_BASE_ID and AIRTABLE_TABLE_ID are all set
  use_pyairtable,      \* the pyairtable import succeeds
  stdout,              \* the envelopes written so far
  exitCode,            \* exit code of the process, -1 while it runs
  requests,            \* the remote requests issued so far, in order
  responses,           \* what each of them met, in the same order
  remote_pages,        \* the pages the remote holds for the view
  \* locals of airtable_completed_tracker.main and its fetch loop
  mode, view_id, after_timestamp, all_records, offset, records, rec_idx,
  \* locals of airtable_lookup.main
  field, value, field_name, matches, used_phone_variant, variant_used,
  simplified_matches, expanded, link_idx, searches,
  \* the function harnesses
  phone, variant, record_ids, linked_table_name, linked_result, lookup_formula

procVars == <<script, pc, stdin, creds, use_pyairtable, stdout, exitCode, requests,
              responses, remote_pages>>
trackerVars == <<mode, view_id, after_timestamp, all_records, offset, records, rec_idx>>
lookupVars == <<field, value, field_name, matches, used_phone_variant, variant_used,
                simplified_matches, expanded, link_idx, searches>>
harnessVars == <<phone, variant, record_ids, linked_table_name, linked_result,
                 lookup_formula>>
vars == <<procVars, trackerVars, lookupVars, harnessVars>>

\* ------------------------------------------------------------------------
\* JSON values of the payload members
\* ------------------------------------------------------------------------
JAbsent == [t |-> "absent", v |-> <<>>]
JNull == [t |-> "null", v |-> <<>>]
JStr(s) == [t |-> "str", v |-> s]
\* a number, v its decimal digits
JNum(digits) == [t |-> "num", v |-> digits]

\* dict.get(key): None when the member is absent
Get(member) == IF member.t = "absent" THEN JNull ELSE member
\* dict.get(key, ""): the empty string when the member is absent
GetOrEmpty(member) == IF member.t = "absent" THEN JStr(<<>>) ELSE member

\* Python truthiness of a JSON value
Truthy(j) ==
  \/ j.t = "str" /\ j.v # <<>>
  \/ j.t = "num" /\ j.v # <<"0">>

\* str(x)
PyStr(j) ==
  CASE j.t = "str" -> j.v
    [] j.t = "num" -> j.v
    [] OTHER -> <<"N", "o", "n", "e">>

\* ------------------------------------------------------------------------
\* emit, emit_error
\* ------------------------------------------------------------------------
\* sys.exit(0) raises SystemExit, which no handler on the way catches: the
\* process ends, whatever code follows the call (cont)
sys_exit_returns(cont) == cont

sys_exit(cont) == "exited"

ExitCodeAt(p) ==
  CASE p = "exited" -> 0
    [] p = "crashed" -> 1
    [] OTHER -> -1

emit(payload, cont) ==
  /\ stdout' = Append(stdout, payload)
  /\ pc' = sys_exit(cont)
  /\ exitCode' = ExitCodeAt(sys_exit(cont))

error_payload(message, code, details) ==
  [status |-> "error", error |-> message, code |-> code, details |-> details]

emit_error(message, code, details, cont) ==
  emit(error_payload(message, code, details), cont)

\* an exception nothing catches: traceback on stderr, exit code 1, no envelope
Crash ==
  /\ pc' = "crashed"
  /\ exitCode' = 1
  /\ UNCHANGED stdout

Goto(p) ==
  /\ pc' = p
  /\ UNCHANGED <<stdout, exitCode>>

NoDetails == [absent |-> TRUE]

\* ------------------------------------------------------------------------
\* The remote service
\* ------------------------------------------------------------------------
\* what a request can meet: a 2xx response with a JSON object, a timeout or
\* connection error, a non-2xx status, a body that is not JSON, a JSON body
\* that is not an object
Outcomes == {"ok", "timeout", "http_error", "bad_json", "not_object"}

\* requests.get and raise_for_status raise RequestException; response.json()
\* raises requests' JSONDecodeError (a RequestException) or, with an older
\* requests, a plain ValueError; data.get on a non-object raises AttributeError
ErrorCodes(outcome) ==
  CASE outcome \in {"timeout", "http_error"} -> {"API_ERROR"}
    [] outcome = "bad_json" -> {"API_ERROR", "QUERY_ERROR"}
    [] OTHER -> {"QUERY_ERROR"}

IdChars == <<"a", "b", "c", "d", "e", "f", "g", "h", "i", "j", "k", "l", "m", "n">>

\* record identifiers
RecId(k) == <<"R", IdChars[k]>>
LinkId(i, step) == <<"r", IdChars[((i * step) % Len(IdChars)) + 1]>>
\* a list of linked identifiers: distinct for step 1 and 5, repeating for step 7
IdList(n, step) == [i \in 1..n |-> LinkId(i, step)]

\* the names of the linked fields ("Applications", "Transactions" followed by
\* a north-east arrow in the source)
APPLICATIONS == "Applications ->"
TRANSACTIONS == "Transactions ->"

Request(kind, table, formula, off, maxRecords, pageSize, view) ==
  [kind |-> kind, table |-> table, formula |-> formula, offset |-> off,
   maxRecords |-> maxRecords, pageSize |-> pageSize, view |-> view]

\* absent query parameter
NoLimit == 0

RequestsOfKind(kind) == SelectSeq(requests, LAMBDA r : r.kind = kind)

\* the outcome of a request and, for a 2xx answer, the records it carried
Response(outcome, rows) == [outcome |-> outcome, records |-> rows]

\* ------------------------------------------------------------------------
\* fetch_linked_records
\* ------------------------------------------------------------------------
LinkLimit == 10

IdCondition(rid) == <<"RECORD_ID() = '">> \o rid \o <<"'">>

RECURSIVE JoinComma(_)
JoinComma(conds) ==
  IF Len(conds) = 0 THEN <<>>
  ELSE IF Len(conds) = 1 THEN conds[1]
  ELSE conds[1] \o <<",">> \o JoinComma(Tail(conds))

\* record_ids[:10]
FirstIdsAll(ids) == ids

FirstIds(ids) == SliceTo(ids, LinkLimit)

LinkedFormula(ids) ==
  LET id_conditions == [i \in 1..Len(FirstIds(ids)) |-> IdCondition(FirstIds(ids)[i])]
  IN IF Len(id_conditions) > 1
     THEN <<"OR(">> \o JoinComma(id_conditions) \o <<")">>
     ELSE id_conditions[1]

\* fetch_linked_records issues a request unless a guard returns early
LinkedIssues(table, ids) == ids # <<>> /\ table # ""

LinkedRequest(table, ids) ==
  Request("linked", table, LinkedFormula(ids), None, LinkLimit, NoLimit, JAbsent)

\* the identifiers a RECORD_ID() formula names, read back from its text
RECURSIVE DropClosing(_)
DropClosing(seg) ==
  IF seg # <<>> /\ seg[Len(seg)] \in {")", ","}
  THEN DropClosing(SubSeq(seg, 1, Len(seg) - 1))
  ELSE SubSeq(seg, 1, Len(seg) - 1)

Markers(f) == {i \in 1..Len(f) : f[i] = "RECORD_ID() = '"}

MinOf(S) == CHOOSE m \in S : \A n \in S : m <= n

RECURSIVE ReferencedIds(_)
ReferencedIds(f) ==
  IF Markers(f) = {} THEN <<>>
  ELSE LET rest == SubSeq(f, MinOf(Markers(f)) + 1, Len(f))
           nxt == IF Markers(rest) = {} THEN Len(rest) + 1 ELSE MinOf(Markers(rest))
       IN <<DropClosing(SubSeq(rest, 1, nxt - 1))>>
            \o ReferencedIds(SubSeq(rest, nxt, Len(rest)))

LinkedRecord(rid) == [id |-> rid, fields |-> <<>>, createdTime |-> <<"t">>]

\* what a 2xx answer to a linked request can hold: the records the formula
\* names, or none of them
LinkedAnswers(req) ==
  { [i \in 1..Len(ReferencedIds(req.formula)) |-> LinkedRecord(ReferencedIds(req.formula)[i])],
    <<>> }

\* the bare `except:` catches whatever the request raises
LinkedCatchesRequestErrors(outcome) == outcome \in {"ok", "timeout", "http_error"}

LinkedCatches(outcome) == TRUE

\* data.get("records", []), and the empty list after any failure
LinkedResult(outcome, answer) == IF outcome = "ok" THEN answer ELSE <<>>

\* ------------------------------------------------------------------------
\* load_payload (the same in both scripts)
\* ------------------------------------------------------------------------
\* sys.stdin.read() and the test for empty input
LoadPayload ==
  /\ pc = "load"
  /\ IF stdin.kind = "empty"
     THEN emit_error("Missing input payload", "INPUT_ERROR", NoDetails, "parse")
     ELSE Goto("parse")
  /\ UNCHANGED <<script, stdin, creds, use_pyairtable, requests, responses, remote_pages>>
  /\ UNCHANGED <<trackerVars, lookupVars, harnessVars>>

\* json.loads: JSONDecodeError gives INPUT_ERROR; any JSON value is returned
ParsePayload ==
  /\ pc = "parse"
  /\ IF stdin.kind \in {"empty", "notjson"}
     THEN emit_error("Invalid JSON payload received", "INPUT_ERROR",
                     [reason |-> "JSONDecodeError"], "crashed")
     ELSE Goto("read")
  /\ UNCHANGED <<script, stdin, creds, use_pyairtable, requests, responses, remote_pages>>
  /\ UNCHANGED <<trackerVars, lookupVars, harnessVars>>

\* the test of the three credentials, the same in both scripts
CredentialsNeverMissing == FALSE

CredentialsMissing == ~creds

\* ------------------------------------------------------------------------
\* airtable_completed_tracker.py
\* ------------------------------------------------------------------------
S_bootstrap == <<"b", "o", "o", "t", "s", "t", "r", "a", "p">>
S_incremental == <<"i", "n", "c", "r", "e", "m", "e", "n", "t", "a", "l">>

procRest == <<script, stdin, creds, use_pyairtable, remote_pages>>

\* main, lines 256-258: payload.get on a payload that is not an object, and
\* .lower() on a mode that is not a string, raise AttributeError
TrackerReadPayload ==
  /\ script = "tracker" /\ pc = "read"
  /\ IF stdin.kind # "object" \/ GetOrEmpty(stdin.m.mode).t # "str"
     THEN Crash /\ UNCHANGED <<mode, view_id, after_timestamp>>
     ELSE /\ mode' = Lower(GetOrEmpty(stdin.m.mode).v)
          /\ view_id' = GetOrEmpty(stdin.m.view_id)
          /\ after_timestamp' = GetOrEmpty(stdin.m.after_timestamp)
          /\ Goto("check_mode")
  /\ UNCHANGED <<procRest, requests, responses, all_records, offset, records, rec_idx>>
  /\ UNCHANGED <<lookupVars, harnessVars>>

TrackerCheckMode ==
  /\ script = "tracker" /\ pc = "check_mode"
  /\ IF mode = <<>> \/ mode \notin {S_bootstrap, S_incremental}
     THEN emit_error("Invalid mode. Expected 'bootstrap' or 'incremental'",
                     "INPUT_ERROR", NoDetails, "check_view")
     ELSE Goto("check_view")
  /\ UNCHANGED <<procRest, requests, responses, trackerVars, lookupVars, harnessVars>>

TrackerCheckView ==
  /\ script = "tracker" /\ pc = "check_view"
  /\ IF ~Truthy(view_id)
     THEN emit_error("view_id is required", "INPUT_ERROR", NoDetails, "check_ts")
     ELSE Goto("check_ts")
  /\ UNCHANGED <<procRest, requests, responses, trackerVars, lookupVars, harnessVars>>

\* main, line 266: `mode == "incremental" and not after_timestamp`
TimestampNeverMissing(m, ts) == FALSE

TimestampMissing(m, ts) == m = S_incremental /\ ~Truthy(ts)

TrackerCheckTimestamp ==
  /\ script = "tracker" /\ pc = "check_ts"
  /\ IF TimestampMissing(mode, after_timestamp)
     THEN emit_error("after_timestamp is required for incremental mode",
                     "INPUT_ERROR", NoDetails, "check_creds")
     ELSE Goto("check_creds")
  /\ UNCHANGED <<procRest, requests, responses, trackerVars, lookupVars, harnessVars>>

TrackerCheckCredentials ==
  /\ script = "tracker" /\ pc = "check_creds"
  /\ IF CredentialsMissing
     THEN emit_error("Airtable credentials not configured", "CONFIGURATION_ERROR",
                     NoDetails, "fetch")
     ELSE Goto("fetch")
  /\ UNCHANGED <<procRest, requests, responses, trackerVars, lookupVars, harnessVars>>

\* the cap on the page requests of one run, above what any view needs
FetchCap == MaxPages + 2

PAGE_SIZE == 100

COMPLETED_TIMESTAMP == "Completed Timestamp"

\* `if offset: params["offset"] = offset`
OffsetParamDropped(off) == None

OffsetParam(off) == IF off \notin {None, <<>>} THEN off ELSE None

\* all_records.extend(records)
ExtendOverwrites(all, recs) == recs

Extend(all, recs) == all \o recs

\* the page the remote serves for an offset: the first page without one, else
\* the page after the one that carried it
PageIndex(off) ==
  IF off = None THEN 1
  ELSE IF \E k \in 1..Len(remote_pages) : remote_pages[k].cursor = off
       THEN 1 + (CHOOSE k \in 1..Len(remote_pages) : remote_pages[k].cursor = off)
       ELSE 0

IncrementalFormula(ts) ==
  <<"IS_AFTER({Completed Timestamp}, '">> \o PyStr(ts) \o <<"'", ")">>

\* the details of a fetch error: of fetch_all_from_view (no formula) and of
\* fetch_recently_completed
FetchDetails(formula, n) ==
  IF formula = None
  THEN [view_id |-> view_id, fetched_so_far |-> n]
  ELSE [after_timestamp |-> after_timestamp, fetched_so_far |-> n]

\* one iteration of the while loop of fetch_all_from_view (formula = None) and
\* of fetch_recently_completed
FetchPage(formula, message, after) ==
  LET req == Request("page", "main", formula, OffsetParam(offset), NoLimit,
                     PAGE_SIZE, view_id)
      k == PageIndex(req.offset)
  IN /\ pc = "fetch"
     /\ Len(RequestsOfKind("page")) < FetchCap
     /\ requests' = Append(requests, req)
     /\ \E outcome \in Outcomes :
          IF outcome = "ok" /\ k \in 1..Len(remote_pages)
          THEN /\ responses' = Append(responses, Response("ok", remote_pages[k].records))
               /\ all_records' = Extend(all_records, remote_pages[k].records)
               /\ offset' = remote_pages[k].cursor
               /\ IF remote_pages[k].cursor \in {None, <<>>}
                  THEN /\ records' = Extend(all_records, remote_pages[k].records)
                       /\ Goto(IF after = "expand"
                                  /\ Extend(all_records, remote_pages[k].records) # <<>>
                               THEN "expand" ELSE "emit_ok")
                  ELSE /\ Goto("fetch")
                       /\ UNCHANGED records
          ELSE /\ responses' = Append(responses,
                                       Response(IF outcome = "ok" THEN "http_error"
                                                ELSE outcome, <<>>))
               /\ \E code \in ErrorCodes(IF outcome = "ok" THEN "http_error" ELSE outcome) :
                    emit_error(message, code, FetchDetails(formula, Len(all_records)), "fetch")
               /\ UNCHANGED <<all_records, offset, records>>
     /\ UNCHANGED <<procRest, mode, view_id, after_timestamp, rec_idx>>
     /\ UNCHANGED <<lookupVars, harnessVars>>

\* main, line 291: `if mode == "incremental":` before the expansion
ExpandsModeAny(m) == TRUE

ExpandsMode(m) == m = S_incremental

\* main, lines 291-292: where the run continues when the fetch has returned
AfterFetch == IF ExpandsMode(mode) THEN "expand" ELSE "emit_ok"

FetchAllFromView ==
  /\ script = "tracker" /\ mode = S_bootstrap
  /\ FetchPage(None, "Failed to fetch records from view", AfterFetch)

FetchRecentlyCompleted ==
  /\ script = "tracker" /\ mode # S_bootstrap
  /\ FetchPage(IncrementalFormula(after_timestamp),
               "Failed to fetch recently completed records", AfterFetch)

APPLICATIONS_TABLE == "tbl5llU1H1vvOJV34"
TRANSACTIONS_TABLE == "tblremNCbcR0kUIDF"

FieldOr(fields, name, default) ==
  IF name \in DOMAIN fields THEN fields[name] ELSE default

\* record["expanded"]["Applications_expanded"] = linked_apps
WithExpanded(record, linked) ==
  [id |-> record.id, createdTime |-> record.createdTime, fields |-> record.fields,
   expanded |-> [Applications_expanded |-> linked]]

\* one iteration of the loop of expand_application_records
ExpandApplicationRecord ==
  LET record == records[rec_idx]
      app_ids == FieldOr(record.fields, APPLICATIONS, <<>>)
      req == LinkedRequest(APPLICATIONS_TABLE, app_ids)
  IN /\ script = "tracker" /\ pc = "expand"
     /\ rec_idx <= Len(records)
     /\ IF LinkedIssues(APPLICATIONS_TABLE, app_ids)
        THEN /\ requests' = Append(requests, req)
             /\ \E outcome \in Outcomes, answer \in LinkedAnswers(req) :
                  /\ responses' = Append(responses, Response(outcome, LinkedResult(outcome, answer)))
                  /\ records' = IF LinkedResult(outcome, answer) # <<>>
                                THEN [records EXCEPT ![rec_idx] =
                                        WithExpanded(record, LinkedResult(outcome, answer))]
                                ELSE records
                  /\ IF LinkedCatches(outcome)
                     THEN Goto(IF rec_idx + 1 > Len(records) THEN "emit_ok" ELSE "expand")
                     ELSE Crash
        ELSE /\ UNCHANGED <<requests, responses, records>>
             /\ Goto(IF rec_idx + 1 > Len(records) THEN "emit_ok" ELSE "expand")
     /\ rec_idx' = rec_idx + 1
     /\ UNCHANGED <<procRest, mode, view_id, after_timestamp, all_records, offset>>
     /\ UNCHANGED <<lookupVars, harnessVars>>

\* string order of Python on the characters of the timestamps
Digits == <<"0", "1", "2", "3", "4", "5", "6", "7", "8", "9">>
CharRank(c) == IF \E i \in 1..Len(Digits) : Digits[i] = c
               THEN CHOOSE i \in 1..Len(Digits) : Digits[i] = c
               ELSE Len(Digits) + 1

RECURSIVE StrLessEq(_, _)
StrLessEq(a, b) ==
  IF a = <<>> THEN TRUE
  ELSE IF b = <<>> THEN FALSE
  ELSE IF Head(a) = Head(b) THEN StrLessEq(Tail(a), Tail(b))
  ELSE CharRank(Head(a)) < CharRank(Head(b))

\* the truthy "Completed Timestamp" values of the records
CompletedTimestamps(recs) ==
  { FieldOr(recs[i].fields, COMPLETED_TIMESTAMP, <<>>) : i \in 1..Len(recs) } \ {<<>>}

\* completed_timestamps.sort(); completed_timestamps[-1]
Oldest(S) == CHOOSE t \in S : \A u \in S : StrLessEq(t, u)

Newest(S) == CHOOSE t \in S : \A u \in S : StrLessEq(u, t)

TrackerMeta ==
  LET base == [mode |-> mode, total_records |-> Len(records), view_id |-> view_id]
      incr == [mode |-> mode, total_records |-> Len(records), view_id |-> view_id,
               after_timestamp |-> after_timestamp]
      full == [mode |-> mode, total_records |-> Len(records), view_id |-> view_id,
               after_timestamp |-> after_timestamp,
               newest_completed_timestamp |-> Newest(CompletedTimestamps(records))]
  IN IF mode # S_incremental THEN base
     ELSE IF CompletedTimestamps(records) = {} THEN incr
     ELSE full

\* main, lines 294-320
TrackerEmit ==
  /\ script = "tracker" /\ pc = "emit_ok"
  /\ emit([status |-> "ok", matches |-> records, meta |-> TrackerMeta], "exited")
  /\ UNCHANGED <<procRest, requests, responses, trackerVars, lookupVars, harnessVars>>

\* ------------------------------------------------------------------------
\* The inputs and the remote data of the tracker
\* ------------------------------------------------------------------------
Cursor(k) == <<"o", IdChars[k]>>

\* record j of the view: without linked field or timestamp (kind 1), with
\* ascending timestamps and applications on every third record (kind 2), with
\* unordered, partly empty timestamps and applications on every second (kind 3)
ViewRecord(j, kind) ==
  [id |-> RecId(j), createdTime |-> <<"t">>,
   fields |->
     CASE kind = 1 -> <<>>
       [] kind = 2 -> (APPLICATIONS :> IdList(IF j % 3 = 1 THEN 2 ELSE 0, 1))
                        @@ (COMPLETED_TIMESTAMP :> <<"2", Digits[(j % 10) + 1]>>)
       [] OTHER -> (APPLICATIONS :> IdList(j % 2, 5))
                     @@ (COMPLETED_TIMESTAMP :>
                           CASE j % 3 = 0 -> <<>>
                             [] j % 3 = 1 -> <<"9">>
                             [] OTHER -> <<"1", "0">>)]

PageSizeOf(k, shift) == (k + shift) % (MaxPageSize + 1)

RECURSIVE RecordsBefore(_, _)
RecordsBefore(k, shift) ==
  IF k = 1 THEN 0 ELSE RecordsBefore(k - 1, shift) + PageSizeOf(k - 1, shift)

View(n, shift, kind) ==
  [k \in 1..n |->
     [records |-> [i \in 1..PageSizeOf(k, shift) |->
                     ViewRecord(RecordsBefore(k, shift) + i, kind)],
      cursor |-> IF k < n THEN Cursor(k) ELSE None]]

Views == { View(n, shift, kind) : n \in 1..MaxPages, shift \in 0..MaxPageSize, kind \in 1..3 }

NoMembers ==
  [field |-> JAbsent, value |-> JAbsent, key |-> JAbsent,
   mode |-> JAbsent, view_id |-> JAbsent, after_timestamp |-> JAbsent]

NotObjects ==
  { [kind |-> k, m |-> NoMembers] : k \in {"empty", "notjson", "array", "string", "number", "null"} }

TrackerModes ==
  { JAbsent, JStr(S_bootstrap), JStr(<<"B">> \o Tail(S_bootstrap)), JStr(S_incremental),
    JStr(<<"x">>), JNum(<<"1">>) }

TrackerInputs ==
  NotObjects \cup
  { [kind |-> "object",
     m |-> [NoMembers EXCEPT !.mode = md, !.view_id = vw, !.after_timestamp = ts]] :
      md \in TrackerModes,
      vw \in {JAbsent, JStr(<<"v", "1">>)},
      ts \in {JAbsent, JStr(<<>>), JStr(<<"2", "0">>), JStr(<<"2", "'">>)} }

IdleTracker ==
  /\ mode = <<>> /\ view_id = JAbsent /\ after_timestamp = JAbsent
  /\ all_records = <<>> /\ offset = None /\ records = <<>> /\ rec_idx = 1

IdleLookup ==
  /\ field = <<>> /\ value = <<>> /\ field_name = "" /\ matches = <<>>
  /\ used_phone_variant = FALSE /\ variant_used = None
  /\ simplified_matches = <<>> /\ expanded = <<>> /\ link_idx = 1 /\ searches = <<>>

IdleHarness ==
  /\ phone = <<>> /\ variant = <<>> /\ record_ids = <<>>
  /\ linked_table_name = "" /\ linked_result = <<>> /\ lookup_formula = <<>>

InitTracker ==
  /\ script = "tracker" /\ pc = "load"
  /\ stdin \in TrackerInputs
  /\ creds \in BOOLEAN
  /\ use_pyairtable = FALSE
  /\ stdout = <<>> /\ exitCode = -1 /\ requests = <<>> /\ responses = <<>>
  /\ remote_pages \in Views
  /\ IdleTracker /\ IdleLookup /\ IdleHarness

NextTracker ==
  \/ LoadPayload
  \/ ParsePayload
  \/ TrackerReadPayload
  \/ TrackerCheckMode
  \/ TrackerCheckView
  \/ TrackerCheckTimestamp
  \/ TrackerCheckCredentials
  \/ FetchAllFromView
  \/ FetchRecentlyCompleted
  \/ ExpandApplicationRecord
  \/ TrackerEmit

SpecTracker == InitTracker /\ [][NextTracker]_vars

\* ------------------------------------------------------------------------
\* airtable_lookup.py
\* ------------------------------------------------------------------------
S_email == <<"e", "m", "a", "i", "l">>
S_phone == <<"p", "h", "o", "n", "e">>
S_orderid == <<"o", "r", "d", "e", "r", "i", "d">>
S_order_id == <<"o", "r", "d", "e", "r", "_", "i", "d">>

\* `a or b`
Or(a, b) == IF Truthy(a) THEN a ELSE b

\* main, lines 193-195: payload.get on a payload that is not an object raises
\* AttributeError
LookupReadPayload ==
  /\ script = "lookup" /\ pc = "read"
  /\ IF stdin.kind # "object"
     THEN Crash /\ UNCHANGED <<field, value>>
     ELSE /\ field' = PyStr(GetOrEmpty(stdin.m.field))
          /\ value' = Strip(PyStr(Or(Get(stdin.m.value), GetOrEmpty(stdin.m.key))))
          /\ Goto("check_value")
  /\ UNCHANGED <<procRest, requests, responses, trackerVars, harnessVars>>
  /\ UNCHANGED <<field_name, matches, used_phone_variant, variant_used,
                 simplified_matches, expanded, link_idx, searches>>

LookupCheckValue ==
  /\ script = "lookup" /\ pc = "check_value"
  /\ IF value = <<>>
     THEN emit_error("Lookup value must not be empty", "INPUT_ERROR", NoDetails,
                     "check_creds")
     ELSE Goto("check_creds")
  /\ UNCHANGED <<procRest, requests, responses, trackerVars, lookupVars, harnessVars>>

LookupCheckCredentials ==
  /\ script = "lookup" /\ pc = "check_creds"
  /\ IF CredentialsMissing
     THEN emit_error("Airtable credentials not configured", "CONFIGURATION_ERROR",
                     NoDetails, "normalise")
     ELSE Goto("normalise")
  /\ UNCHANGED <<procRest, requests, responses, trackerVars, lookupVars, harnessVars>>

\* normalise_field: the canonical field name, "" when the field is unsupported
CanonicalField(f) ==
  LET key == Lower(Strip(f))
  IN CASE key = S_email -> "Email"
       [] key \in {S_orderid, S_order_id} -> "ID"
       [] key = S_phone -> "Phone"
       [] OTHER -> ""

NormaliseField ==
  /\ script = "lookup" /\ pc = "normalise"
  /\ field_name' = CanonicalField(field)
  /\ IF CanonicalField(field) = ""
     THEN emit_error("Unsupported lookup field", "INPUT_ERROR", NoDetails, "search1")
     ELSE Goto("search1")
  /\ UNCHANGED <<procRest, requests, responses, trackerVars, harnessVars>>
  /\ UNCHANGED <<field, value, matches, used_phone_variant, variant_used,
                 simplified_matches, expanded, link_idx, searches>>

\* sanitize_formula_value: value.replace("'", "\\'")
RECURSIVE sanitize_formula_value(_)
sanitize_formula_value(v) ==
  IF v = <<>> THEN <<>>
  ELSE (IF Head(v) = "'" THEN <<"\\", "'">> ELSE <<Head(v)>>)
         \o sanitize_formula_value(Tail(v))

\* f"LOWER({{{field_name}}}) = '{sanitize_formula_value(lowered_value)}'"
EqualityFormula(name, v) ==
  <<"LOWER({", name, "}) = '">> \o sanitize_formula_value(Lower(v)) \o <<"'">>

MAX_RECORDS == 3

\* a record of the main table; the remote also sends members that the
\* response drops
TableRecord(j, apps, trans) ==
  [id |-> RecId(j), createdTime |-> <<"t">>, commentCount |-> 0,
   fields |-> (IF apps < 0 THEN <<>> ELSE (APPLICATIONS :> IdList(apps, 1)))
                @@ (IF trans < 0 THEN <<>> ELSE (TRANSACTIONS :> IdList(trans, 5)))]

\* the rows of the table that can match a formula: none, one row with or
\* without linked fields (absent: -1, empty, short, longer than the limit of
\* the expansion), or several rows
Hits ==
  {<<>>}
    \cup { <<TableRecord(1, a, t)>> : a \in {-1, 0, 1, LinkLimit + 1}, t \in {-1, 2} }
    \cup { [j \in 1..n |-> TableRecord(j, 1, 2)] : n \in 2..MaxTable }

\* the remote honours maxRecords when the query carries it
Limited(rows, maxRecords) ==
  IF maxRecords = NoLimit THEN rows ELSE SliceTo(rows, maxRecords)

SearchRequest(name, v, maxRecords) ==
  Request("search", "main", EqualityFormula(name, v), None, maxRecords, NoLimit, JAbsent)

\* what one call of perform_search can do: the requests it issues and either
\* the records it returns or the error it reports
Returned(reqs, rows) ==
  [reqs |-> reqs, resps |-> <<Response("ok", rows)>>, ok |-> TRUE, records |-> rows,
   code |-> "", message |-> ""]
Failed(reqs, outcome, code, message) ==
  [reqs |-> reqs, resps |-> [i \in 1..Len(reqs) |-> Response(outcome, <<>>)],
   ok |-> FALSE, records |-> <<>>, code |-> code, message |-> message]

\* query_airtable_with_expansion: one request with maxRecords = 3
QueryAirtableWithExpansion(name, v) ==
  LET req == SearchRequest(name, v, MAX_RECORDS)
  IN { Returned(<<req>>, Limited(rows, req.maxRecords)) : rows \in Hits }
       \cup { Failed(<<req>>, o, "API_ERROR", "Failed to query Airtable API") :
                 o \in {x \in Outcomes \ {"ok"} : "API_ERROR" \in ErrorCodes(x)} }
       \cup { Failed(<<req>>, o, "QUERY_ERROR", "Unexpected error during Airtable query") :
                 o \in {x \in Outcomes \ {"ok"} : "QUERY_ERROR" \in ErrorCodes(x)} }

\* the pyairtable branch: Table(...) may raise; table.all(max_records=3) sends
\* one limited request, or raises TypeError before sending when the library
\* rejects the keyword, and then table.all() without the limit is called; any
\* other exception reaches the handler of perform_search
QueryPyairtable(name, v) ==
  LET limited == SearchRequest(name, v, MAX_RECORDS)
      unlimited == SearchRequest(name, v, NoLimit)
  IN { Failed(<<>>, "none", "QUERY_ERROR", "Airtable query failed") }
       \cup { Returned(<<limited>>, Limited(rows, limited.maxRecords)) : rows \in Hits }
       \cup { Failed(<<limited>>, o, "QUERY_ERROR", "Airtable query failed") :
                 o \in Outcomes \ {"ok"} }
       \cup { Returned(<<unlimited>>, Limited(rows, unlimited.maxRecords)) : rows \in Hits }
       \cup { Failed(<<unlimited>>, o, "QUERY_ERROR", "Airtable query failed") :
                 o \in Outcomes \ {"ok"} }

perform_search(name, search_value) ==
  IF use_pyairtable
  THEN QueryPyairtable(name, search_value)
  ELSE QueryAirtableWithExpansion(name, search_value)

\* the log of the calls of perform_search
Searched(v, r) == [value |-> v, ok |-> r.ok, records |-> r.records]

\* line 260-262: the second search is made when the first found nothing, the
\* field is "phone" and the value has a variant
TryVariantAlways(m, f, v) == f = S_phone /\ get_israeli_phone_variant(v) # None

TryVariant(m, f, v) ==
  Len(m) = 0 /\ f = S_phone /\ get_israeli_phone_variant(v) # None

\* line 255-262
InitialSearch ==
  /\ script = "lookup" /\ pc = "search1"
  /\ \E r \in perform_search(field_name, value) :
       LET next == IF TryVariant(r.records, field, value) THEN "search2" ELSE "simplify"
       IN /\ requests' = requests \o r.reqs
          /\ responses' = responses \o r.resps
          /\ searches' = Append(searches, Searched(value, r))
          /\ matches' = r.records
          /\ IF r.ok
             THEN Goto(next)
             ELSE emit_error(r.message, r.code, [reason |-> "exception"], next)
  /\ used_phone_variant' = FALSE
  /\ variant_used' = None
  /\ UNCHANGED <<procRest, trackerVars, harnessVars>>
  /\ UNCHANGED <<field, value, field_name, simplified_matches, expanded, link_idx>>

\* line 265
VariantFoundAlways(m) == TRUE

VariantFound(m) == Len(m) > 0

\* line 264-267
VariantSearch ==
  /\ script = "lookup" /\ pc = "search2"
  /\ \E r \in perform_search(field_name, get_israeli_phone_variant(value)) :
       /\ requests' = requests \o r.reqs
       /\ responses' = responses \o r.resps
       /\ searches' = Append(searches, Searched(get_israeli_phone_variant(value), r))
       /\ matches' = r.records
       /\ used_phone_variant' = VariantFound(r.records)
       /\ variant_used' = IF VariantFound(r.records)
                          THEN get_israeli_phone_variant(value) ELSE None
       /\ IF r.ok
          THEN Goto("simplify")
          ELSE emit_error(r.message, r.code, [reason |-> "exception"], "simplify")
  /\ UNCHANGED <<procRest, trackerVars, harnessVars>>
  /\ UNCHANGED <<field, value, field_name, simplified_matches, expanded, link_idx>>

\* LINKED_TABLES, in the order of the dictionary, with the key of the
\* expansion (the arrow replaced by "_expanded")
LINKED_TABLES_Repeated ==
  << [field |-> APPLICATIONS, table |-> APPLICATIONS_TABLE, clean |-> "Applications_expanded"],
     [field |-> TRANSACTIONS, table |-> TRANSACTIONS_TABLE, clean |-> "Transactions_expanded"],
     [field |-> APPLICATIONS, table |-> APPLICATIONS_TABLE, clean |-> "Applications_expanded"] >>

LINKED_TABLES ==
  << [field |-> APPLICATIONS, table |-> APPLICATIONS_TABLE, clean |-> "Applications_expanded"],
     [field |-> TRANSACTIONS, table |-> TRANSACTIONS_TABLE, clean |-> "Transactions_expanded"] >>

\* line 279-283
Simplified(record) ==
  [id |-> record.id, fields |-> record.fields, createdTime |-> record.createdTime]

SimplifiedExpanded(record, exp) ==
  [id |-> record.id, fields |-> record.fields, createdTime |-> record.createdTime,
   expanded |-> exp]

\* line 286
ExpandsAny(m) == Len(m) >= 1

Expands(m) == Len(m) = 1

\* line 276-305 when the records are not expanded
Simplify ==
  /\ script = "lookup" /\ pc = "simplify"
  /\ IF Expands(matches)
     THEN /\ expanded' = <<>>
          /\ link_idx' = 1
          /\ Goto("expand")
          /\ UNCHANGED simplified_matches
     ELSE /\ simplified_matches' = [i \in 1..Len(matches) |-> Simplified(matches[i])]
          /\ Goto("emit_ok")
          /\ UNCHANGED <<expanded, link_idx>>
  /\ UNCHANGED <<procRest, requests, responses, trackerVars, harnessVars>>
  /\ UNCHANGED <<field, value, field_name, matches, used_phone_variant, variant_used,
                 searches>>

\* line 290-305: one iteration of the loop over LINKED_TABLES, and after the
\* last one the record is appended
ExpandLinkedField ==
  LET record == matches[1]
      linked == LINKED_TABLES[link_idx]
      ids == FieldOr(record.fields, linked.field, <<>>)
      req == LinkedRequest(linked.table, ids)
      Done(exp) ==
        IF link_idx < Len(LINKED_TABLES)
        THEN Goto("expand") /\ UNCHANGED simplified_matches
        ELSE /\ simplified_matches' =
                  Append(simplified_matches,
                         IF exp # <<>> THEN SimplifiedExpanded(record, exp)
                         ELSE Simplified(record))
             /\ Goto("emit_ok")
  IN /\ script = "lookup" /\ pc = "expand"
     /\ link_idx <= Len(LINKED_TABLES)
     /\ IF LinkedIssues(linked.table, ids)
        THEN /\ requests' = Append(requests, req)
             /\ \E outcome \in Outcomes, answer \in LinkedAnswers(req) :
                  LET exp == IF LinkedResult(outcome, answer) # <<>>
                             THEN (linked.clean :> LinkedResult(outcome, answer)) @@ expanded
                             ELSE expanded
                  IN /\ responses' = Append(responses,
                                            Response(outcome, LinkedResult(outcome, answer)))
                     /\ expanded' = exp
                     /\ IF LinkedCatches(outcome)
                        THEN Done(exp)
                        ELSE Crash /\ UNCHANGED simplified_matches
        ELSE /\ UNCHANGED <<requests, responses, expanded>>
             /\ Done(expanded)
     /\ link_idx' = link_idx + 1
     /\ UNCHANGED <<procRest, trackerVars, harnessVars>>
     /\ UNCHANGED <<field, value, field_name, matches, used_phone_variant, variant_used,
                    searches>>

LookupMeta ==
  IF used_phone_variant
  THEN [total_matches |-> Len(simplified_matches), expanded |-> Len(matches) = 1,
        used_phone_variant |-> TRUE, variant_used |-> variant_used]
  ELSE [total_matches |-> Len(simplified_matches), expanded |-> Len(matches) = 1]

\* line 307-324
LookupEmit ==
  /\ script = "lookup" /\ pc = "emit_ok"
  /\ emit([status |-> "ok", matches |-> simplified_matches, meta |-> LookupMeta], "exited")
  /\ UNCHANGED <<procRest, requests, responses, trackerVars, lookupVars, harnessVars>>

\* ------------------------------------------------------------------------
\* The inputs of the lookup
\* ------------------------------------------------------------------------
LookupFields ==
  { JAbsent, JStr(S_phone), JStr(<<"P">> \o Tail(S_phone)), JStr(<<" ">> \o S_phone \o <<" ">>),
    JStr(S_email), JStr(<<"o", "r", "d", "e", "r", "I", "d">>), JStr(<<"x">>) }

LookupValues ==
  { JAbsent, JStr(<<" ">>), JStr(<<"9", "7", "2", "5">>), JStr(<<"9", "7", "2", "0", "5">>),
    JStr(<<"9", "7", "2", "0">>), JStr(<<"E", "'", "b">>), JNum(<<"9", "7", "2", "5">>) }

LookupKeys == { JAbsent, JNull, JStr(<<"k">>) }

LookupInputs ==
  NotObjects \cup
  { [kind |-> "object", m |-> [NoMembers EXCEPT !.field = f, !.value = v, !.key = k]] :
      f \in LookupFields, v \in LookupValues, k \in LookupKeys }

InitLookup ==
  /\ script = "lookup" /\ pc = "load"
  /\ stdin \in LookupInputs
  /\ creds \in BOOLEAN
  /\ use_pyairtable \in BOOLEAN
  /\ stdout = <<>> /\ exitCode = -1 /\ requests = <<>> /\ responses = <<>>
  /\ remote_pages = <<>>
  /\ IdleTracker /\ IdleLookup /\ IdleHarness

NextLookup ==
  \/ LoadPayload
  \/ ParsePayload
  \/ LookupReadPayload
  \/ LookupCheckValue
  \/ LookupCheckCredentials
  \/ NormaliseField
  \/ InitialSearch
  \/ VariantSearch
  \/ Simplify
  \/ ExpandLinkedField
  \/ LookupEmit

SpecLookup == InitLookup /\ [][NextLookup]_vars

\* ------------------------------------------------------------------------
\* Both scripts
\* ------------------------------------------------------------------------
Init == InitLookup \/ InitTracker

Next ==
  \/ LoadPayload
  \/ ParsePayload
  \/ LookupReadPayload
  \/ LookupCheckValue
  \/ LookupCheckCredentials
  \/ NormaliseField
  \/ InitialSearch
  \/ VariantSearch
  \/ Simplify
  \/ ExpandLinkedField
  \/ LookupEmit
  \/ TrackerReadPayload
  \/ TrackerCheckMode
  \/ TrackerCheckView
  \/ TrackerCheckTimestamp
  \/ TrackerCheckCredentials
  \/ FetchAllFromView
  \/ FetchRecentlyCompleted
  \/ ExpandApplicationRecord
  \/ TrackerEmit

Spec == Init /\ [][Next]_vars

\* ------------------------------------------------------------------------
\* get_israeli_phone_variant applied to a phone number and to its result
\* ------------------------------------------------------------------------
PhoneChars == {"9", "7", "2", "0"}

RECURSIVE Strings(_, _)
Strings(chars, n) ==
  IF n = 0 THEN {<<>>}
  ELSE Strings(chars, n - 1)
         \cup { <<c>> \o t : c \in chars, t \in { u \in Strings(chars, n - 1) : Len(u) = n - 1 } }

InitPhone ==
  /\ script = "phone" /\ pc = "call"
  /\ phone \in Strings(PhoneChars, MaxPhoneLen)
  /\ variant = <<>>
  /\ record_ids = <<>> /\ linked_table_name = "" /\ linked_result = <<>>
  /\ lookup_formula = <<>>
  /\ stdin = [kind |-> "empty", m |-> NoMembers]
  /\ creds = FALSE /\ use_pyairtable = FALSE
  /\ stdout = <<>> /\ exitCode = -1 /\ requests = <<>> /\ responses = <<>> /\ remote_pages = <<>>
  /\ IdleTracker /\ IdleLookup

\* variant holds the results of the successive applications
ApplyVariant ==
  /\ script = "phone" /\ pc = "call"
  /\ Len(variant) < 2
  /\ variant # <<>> => variant[Len(variant)] # None
  /\ variant' = Append(variant,
                       get_israeli_phone_variant(IF variant = <<>> THEN phone
                                                 ELSE variant[Len(variant)]))
  /\ UNCHANGED <<procVars, trackerVars, lookupVars>>
  /\ UNCHANGED <<phone, record_ids, linked_table_name, linked_result, lookup_formula>>

NextPhone == ApplyVariant

SpecPhone == InitPhone /\ [][NextPhone]_vars

\* ------------------------------------------------------------------------
\* fetch_linked_records applied to a list of identifiers
\* ------------------------------------------------------------------------
InitLinks ==
  /\ script = "links" /\ pc = "call"
  /\ record_ids \in { IdList(n, step) : n \in 0..MaxIds, step \in {1, 5, 7} }
  /\ linked_table_name \in {"", APPLICATIONS_TABLE, TRANSACTIONS_TABLE}
  /\ linked_result = <<>>
  /\ phone = <<>> /\ variant = <<>> /\ lookup_formula = <<>>
  /\ stdin = [kind |-> "empty", m |-> NoMembers]
  /\ creds = TRUE /\ use_pyairtable = FALSE
  /\ stdout = <<>> /\ exitCode = -1 /\ requests = <<>> /\ responses = <<>> /\ remote_pages = <<>>
  /\ IdleTracker /\ IdleLookup

FetchLinkedRecords ==
  /\ script = "links" /\ pc = "call"
  /\ IF LinkedIssues(linked_table_name, record_ids)
     THEN /\ requests' = Append(requests, LinkedRequest(linked_table_name, record_ids))
          /\ \E outcome \in Outcomes,
                answer \in LinkedAnswers(LinkedRequest(linked_table_name, record_ids)) :
               /\ responses' = Append(responses, Response(outcome, LinkedResult(outcome, answer)))
               /\ linked_result' = LinkedResult(outcome, answer)
               /\ pc' = IF LinkedCatches(outcome) THEN "returned" ELSE "raised"
     ELSE /\ linked_result' = <<>>
          /\ pc' = "returned"
          /\ UNCHANGED <<requests, responses>>
  /\ UNCHANGED <<script, stdin, creds, use_pyairtable, stdout, exitCode, remote_pages>>
  /\ UNCHANGED <<trackerVars, lookupVars>>
  /\ UNCHANGED <<phone, variant, record_ids, linked_table_name, lookup_formula>>

NextLinks == FetchLinkedRecords

SpecLinks == InitLinks /\ [][NextLinks]_vars

\* ------------------------------------------------------------------------
\* The equality formula built from a lookup value
\* ------------------------------------------------------------------------
FormulaChars == {"a", "E", "'", "\\"}

InitFormula ==
  /\ script = "formula" /\ pc = "call"
  /\ value \in Strings(FormulaChars, MaxValueLen)
  /\ field_name \in {"Email", "ID", "Phone"}
  /\ use_pyairtable \in BOOLEAN
  /\ lookup_formula = <<>>
  /\ field = <<>> /\ matches = <<>> /\ used_phone_variant = FALSE /\ variant_used = None
  /\ simplified_matches = <<>> /\ expanded = <<>> /\ link_idx = 1 /\ searches = <<>>
  /\ phone = <<>> /\ variant = <<>>
  /\ record_ids = <<>> /\ linked_table_name = "" /\ linked_result = <<>>
  /\ stdin = [kind |-> "empty", m |-> NoMembers]
  /\ creds = TRUE
  /\ stdout = <<>> /\ exitCode = -1 /\ requests = <<>> /\ responses = <<>> /\ remote_pages = <<>>
  /\ IdleTracker

\* lines 99-100 of query_airtable_with_expansion and lines 227-228 of
\* perform_search: the same expression on both client strategies
BuildEqualityFormula ==
  /\ script = "formula" /\ pc = "call"
  /\ lookup_formula' = EqualityFormula(field_name, value)
  /\ pc' = "returned"
  /\ UNCHANGED <<script, stdin, creds, use_pyairtable, stdout, exitCode, requests,
                 responses, remote_pages>>
  /\ UNCHANGED <<trackerVars, lookupVars>>
  /\ UNCHANGED <<phone, variant, record_ids, linked_table_name, linked_result>>

NextFormula == BuildEqualityFormula

SpecFormula == InitFormula /\ [][NextFormula]_vars

\* ------------------------------------------------------------------------
\* Properties
\* ------------------------------------------------------------------------
Envelope == stdout[1]

Succeeded == pc = "exited" /\ Len(stdout) = 1 /\ Envelope.status = "ok"

PageRequests == RequestsOfKind("page")

\* the number of records on the pages 1..k of the view
RECURSIVE RecordsOnPages(_)
RecordsOnPages(k) ==
  IF k = 0 THEN 0 ELSE RecordsOnPages(k - 1) + Len(remote_pages[k].records)

AllPages == Flatten([k \in 1..Len(remote_pages) |-> remote_pages[k].records])

\* the fetch loop has returned to main
FetchReturned == script = "tracker" /\ (pc \in {"expand", "emit_ok"} \/ Succeeded)

\* C3: in a bulk sync the first page request carries no offset and each later
\* one the cursor of the page before it; when no request fails the fetch
\* returns after exactly one request per page, with the records of all pages
\* concatenated in page order (and the envelope lists them in that order).
C3_Pagination ==
  script = "tracker" =>
    /\ Len(PageRequests) <= Len(remote_pages)
    /\ \A k \in 1..Len(PageRequests) :
         PageRequests[k].offset = IF k = 1 THEN None ELSE remote_pages[k - 1].cursor
    /\ FetchReturned =>
         /\ Len(PageRequests) = Len(remote_pages)
         /\ all_records = AllPages
         /\ [i \in 1..Len(records) |-> records[i].id] = [i \in 1..Len(AllPages) |-> AllPages[i].id]
         /\ Succeeded => Len(Envelope.matches) = Len(AllPages)

C3_Witness ==
  /\ Succeeded /\ script = "tracker" /\ mode = S_incremental
  /\ Len(remote_pages) >= 3
  /\ Len(PageRequests) = Len(remote_pages)
  /\ Len(remote_pages[1].records) > 0 /\ Len(remote_pages[2].records) > 0

FetchErrors ==
  { i \in 1..Len(stdout) :
      stdout[i].status = "error" /\ "fetched_so_far" \in DOMAIN stdout[i].details }

\* C4: when request k of a bulk-sync fetch fails, the run ends with a single
\* error envelope whose details.fetched_so_far is the number of records on the
\* pages 1..k-1, the envelope carries no matches, and the failed request is
\* the last request of the run.
C4_FetchFailure ==
  script = "tracker" =>
    \A i \in FetchErrors :
      /\ Len(stdout) = 1
      /\ pc = "exited"
      /\ "matches" \notin DOMAIN stdout[i]
      /\ stdout[i].code \in {"API_ERROR", "QUERY_ERROR"}
      /\ Len(requests) = Len(PageRequests)
      /\ responses[Len(responses)].outcome # "ok"
      /\ \A k \in 1..(Len(responses) - 1) : responses[k].outcome = "ok"
      /\ stdout[i].details.fetched_so_far = RecordsOnPages(Len(PageRequests) - 1)

C4_Witness ==
  /\ script = "tracker" /\ FetchErrors # {}
  /\ Len(PageRequests) = 3
  /\ Envelope.details.fetched_so_far >= 3
  /\ responses[3].outcome = "bad_json"

\* C5 as stated: for every phone number that begins with "972" and has at
\* least 4 characters, applying get_israeli_phone_variant twice gives the
\* number back.
C5_TwiceRestoresAll ==
  (Len(variant) = 2 /\ StartsWith(phone, Prefix972) /\ Len(phone) >= 4)
    => variant[2] = phone

\* C5, amended: applying get_israeli_phone_variant twice gives the number back
\* when the number begins with "972", has at least 4 characters, and its
\* fourth character is not "0" or is a "0" followed by a character other
\* than "0".
C5_TwiceRestores ==
  (/\ Len(variant) = 2
   /\ StartsWith(phone, Prefix972) /\ Len(phone) >= 4
   /\ \/ phone[4] # "0"
      \/ Len(phone) >= 5 /\ phone[5] # "0")
    => variant[2] = phone

C5_Witness ==
  /\ Len(variant) = 2
  /\ StartsWith(phone, Prefix972) /\ Len(phone) >= 5
  /\ phone[4] = "0"
  /\ variant[1] = SubSeq(phone, 1, 3) \o SubSeq(phone, 5, Len(phone))
  /\ variant[2] = phone

Terminated == pc \in {"exited", "crashed"}

\* C1 as stated: whatever standard input holds and whatever the remote
\* answers, a run of either script ends with exactly one envelope of status ok
\* or error and with exit code 0, never with an unhandled exception.
C1_AlwaysEnvelope ==
  Terminated =>
    /\ pc = "exited" /\ exitCode = 0
    /\ Len(stdout) = 1
    /\ Envelope.status \in {"ok", "error"}

FailedPrimaryIsLast ==
  \A i \in 1..Len(requests) :
    (requests[i].kind \in {"search", "page"} /\ responses[i].outcome # "ok")
      => i = Len(requests)

\* C2: a run writes at most one envelope; once an envelope is written no
\* further remote request is issued and nothing more is written; a primary
\* request (search or page) that failed is the last request of the run.
C2_EmitOnce ==
  /\ [](Len(stdout) <= 1 /\ FailedPrimaryIsLast)
  /\ [][stdout # <<>> => (requests' = requests /\ stdout' = stdout)]_vars

C2_Witness ==
  /\ script = "lookup" /\ pc = "exited"
  /\ Len(stdout) = 1 /\ Envelope.status = "error" /\ Envelope.code = "API_ERROR"
  /\ field = S_phone /\ get_israeli_phone_variant(value) # None
  /\ Len(searches) = 1 /\ Len(requests) = 1

\* the alternate form of a value that begins with "972", from the text of the
\* specification: the "0" after the prefix removed, or a "0" inserted there
Alternate(v) ==
  IF v[4] = "0"
  THEN SubSeq(v, 1, 3) \o SubSeq(v, 5, Len(v))
  ELSE SubSeq(v, 1, 3) \o <<"0">> \o SubSeq(v, 4, Len(v))

SearchRequests == RequestsOfKind("search")

\* C6: a point lookup calls the primary search at most twice and sends at most
\* two primary queries; a second search happens only after a first one that
\* returned zero records, only for the field "phone" and a value that starts
\* with "972" and has at least 4 characters, and it searches the alternate
\* form of the value; no third search follows.
C6_AtMostOneRetry ==
  script = "lookup" =>
    /\ Len(searches) <= 2
    /\ Len(SearchRequests) <= Len(searches)
    /\ Len(searches) >= 1 => searches[1].value = value
    /\ Len(searches) = 2 =>
         /\ searches[1].ok /\ searches[1].records = <<>>
         /\ field = S_phone
         /\ StartsWith(value, <<"9", "7", "2">>) /\ Len(value) >= 4
         /\ searches[2].value = Alternate(value)
         /\ Len(SearchRequests) = 2 =>
              SearchRequests[2].formula =
                <<"LOWER({", "Phone", "}) = '">> \o Alternate(value) \o <<"'">>

C6_Witness ==
  /\ script = "lookup" /\ Succeeded
  /\ Len(searches) = 2 /\ searches[2].ok /\ searches[2].records = <<>>
  /\ Len(SearchRequests) = 2
  /\ value = <<"9", "7", "2", "0", "5">>

VariantReported == "used_phone_variant" \in DOMAIN Envelope.meta

\* C7: in a successful phone lookup the envelope reports used_phone_variant
\* (true, with variant_used the alternate form) exactly when the first search
\* returned zero records and the search of the alternate form returned at
\* least one; the matches are then the records of that second search.
C7_VariantReported ==
  (script = "lookup" /\ Succeeded /\ field_name = "Phone") =>
    /\ VariantReported <=>
         (/\ Len(searches) = 2
          /\ searches[1].records = <<>>
          /\ Len(searches[2].records) >= 1)
    /\ VariantReported =>
         /\ Envelope.meta.used_phone_variant = TRUE
         /\ Envelope.meta.variant_used = Alternate(value)
         /\ searches[2].value = Alternate(value)
         /\ [i \in 1..Len(Envelope.matches) |-> Simplified(Envelope.matches[i])]
              = [i \in 1..Len(searches[2].records) |-> Simplified(searches[2].records[i])]

C7_Witness ==
  /\ script = "lookup" /\ Succeeded /\ field_name = "Phone"
  /\ VariantReported
  /\ Envelope.meta.variant_used = <<"9", "7", "2", "0", "5">>
  /\ Len(Envelope.matches) = 2

\* C8 as stated: every successful point lookup returns at most 3 records, and
\* every primary query carries the record limit of 3.
C8_AtMostThree ==
  script = "lookup" =>
    /\ \A i \in 1..Len(SearchRequests) : SearchRequests[i].maxRecords = 3
    /\ Succeeded => Len(Envelope.matches) <= 3

\* C9: fetch_linked_records issues at most one request and none for an empty
\* list; the formula of the request names the first min(10, length)
\* identifiers of the list, in order, and no other.
C9_LinkedRequest ==
  (script = "links" /\ pc = "returned") =>
    /\ Len(requests) <= 1
    /\ record_ids = <<>> => requests = <<>>
    /\ \A i \in 1..Len(requests) :
         /\ requests[i].kind = "linked"
         /\ ReferencedIds(requests[i].formula)
              = SubSeq(record_ids, 1, IF Len(record_ids) < 10 THEN Len(record_ids) ELSE 10)

C9_Witness ==
  /\ script = "links" /\ pc = "returned"
  /\ Len(record_ids) >= 12
  /\ Len(requests) = 1
  /\ Len(ReferencedIds(requests[1].formula)) = 10
  /\ record_ids[11] # record_ids[1]

\* the positions of the linked-record requests among the requests
RECURSIVE LinkedPositions(_)
LinkedPositions(n) ==
  IF n = 0 THEN <<>>
  ELSE LinkedPositions(n - 1) \o (IF requests[n].kind = "linked" THEN <<n>> ELSE <<>>)

\* the positions of the records of the view that hold applications
RECURSIVE ExpandablePositions(_)
ExpandablePositions(n) ==
  IF n = 0 THEN <<>>
  ELSE ExpandablePositions(n - 1)
         \o (IF FieldOr(AllPages[n].fields, APPLICATIONS, <<>>) # <<>> THEN <<n>> ELSE <<>>)

SomeLinkedFailed ==
  \E i \in 1..Len(requests) : requests[i].kind = "linked" /\ responses[i].outcome # "ok"

CleanName(table) ==
  IF table = APPLICATIONS_TABLE THEN "Applications_expanded" ELSE "Transactions_expanded"

\* C10: a run in which a linked-record request failed still ends with one
\* envelope of status ok and no error code; every matched record keeps its id,
\* fields and createdTime; and every linked-record request that succeeded
\* with records has them attached under its own expansion key.
C10_ExpansionBestEffort ==
  (Terminated /\ SomeLinkedFailed) =>
    /\ Succeeded
    /\ "code" \notin DOMAIN Envelope
    /\ script = "lookup" =>
         /\ Len(Envelope.matches) = 1
         /\ Simplified(Envelope.matches[1]) = Simplified(searches[Len(searches)].records[1])
         /\ \A i \in 1..Len(requests) :
              (requests[i].kind = "linked" /\ responses[i].outcome = "ok"
                 /\ responses[i].records # <<>>) =>
                /\ "expanded" \in DOMAIN Envelope.matches[1]
                /\ CleanName(requests[i].table) \in DOMAIN Envelope.matches[1].expanded
                /\ Envelope.matches[1].expanded[CleanName(requests[i].table)]
                     = responses[i].records
    /\ script = "tracker" =>
         /\ [j \in 1..Len(Envelope.matches) |-> Simplified(Envelope.matches[j])]
              = [j \in 1..Len(AllPages) |-> Simplified(AllPages[j])]
         /\ Len(LinkedPositions(Len(requests))) = Len(ExpandablePositions(Len(AllPages)))
         /\ \A n \in 1..Len(LinkedPositions(Len(requests))) :
              LET i == LinkedPositions(Len(requests))[n]
                  j == ExpandablePositions(Len(AllPages))[n]
              IN (responses[i].outcome = "ok" /\ responses[i].records # <<>>) =>
                   /\ "expanded" \in DOMAIN Envelope.matches[j]
                   /\ Envelope.matches[j].expanded.Applications_expanded = responses[i].records

C10_Witness ==
  /\ script = "lookup" /\ Succeeded
  /\ Len(requests) = 3
  /\ requests[2].kind = "linked" /\ responses[2].outcome = "bad_json"
  /\ requests[3].kind = "linked" /\ responses[3].outcome = "ok"
  /\ "expanded" \in DOMAIN Envelope.matches[1]
  /\ DOMAIN Envelope.matches[1].expanded = {"Transactions_expanded"}

\* the records of the last primary search: the matched records
Matched == searches[Len(searches)].records

PopulatedLink(record) ==
  \E name \in {APPLICATIONS, TRANSACTIONS} : FieldOr(record.fields, name, <<>>) # <<>>

LinkedReturnedRecords ==
  \E i \in 1..Len(requests) :
    requests[i].kind = "linked" /\ responses[i].outcome = "ok" /\ responses[i].records # <<>>

NoneExpanded ==
  \A i \in 1..Len(Envelope.matches) : "expanded" \notin DOMAIN Envelope.matches[i]

\* C11 as stated: in a successful point lookup, when exactly one record
\* matched and one of its linked fields (Applications, Transactions) holds a
\* non-empty identifier list, the output record has an expanded key; when two
\* or more records matched, no output record has one.
C11_CardinalityGateAll ==
  (script = "lookup" /\ Succeeded) =>
    /\ (Len(Matched) = 1 /\ PopulatedLink(Matched[1])) =>
         (Len(Envelope.matches) = 1 /\ "expanded" \in DOMAIN Envelope.matches[1])
    /\ Len(Matched) >= 2 => NoneExpanded

\* C11, amended: when exactly one record matched, the output record has an
\* expanded key exactly when a linked-record request made for it returned at
\* least one record (a failed or empty answer adds no key), and the key then
\* holds only expansions of the configured linked fields; when two or more
\* records matched, no output record has an expanded key and no linked-record
\* request is made.
C11_CardinalityGate ==
  (script = "lookup" /\ Succeeded) =>
    /\ Len(Matched) = 1 =>
         /\ Len(Envelope.matches) = 1
         /\ "expanded" \in DOMAIN Envelope.matches[1] <=> LinkedReturnedRecords
         /\ LinkedReturnedRecords => PopulatedLink(Matched[1])
         /\ "expanded" \in DOMAIN Envelope.matches[1] =>
              /\ DOMAIN Envelope.matches[1].expanded # {}
              /\ DOMAIN Envelope.matches[1].expanded
                   \subseteq {"Applications_expanded", "Transactions_expanded"}
    /\ Len(Matched) >= 2 =>
         /\ NoneExpanded
         /\ Len(Envelope.matches) = Len(Matched)
         /\ RequestsOfKind("linked") = <<>>

C11_Witness ==
  /\ script = "lookup" /\ Succeeded
  /\ Len(Matched) = 1 /\ PopulatedLink(Matched[1])
  /\ Len(RequestsOfKind("linked")) = 2
  /\ "expanded" \in DOMAIN Envelope.matches[1]
  /\ DOMAIN Envelope.matches[1].expanded = {"Applications_expanded", "Transactions_expanded"}

\* the number of backslashes that stand directly before position i
RECURSIVE BackslashesBefore(_, _)
BackslashesBefore(s, i) ==
  IF i = 1 \/ s[i - 1] # "\\" THEN 0 ELSE 1 + BackslashesBefore(s, i - 1)

\* the quotes of a literal that no backslash escapes: a backslash escapes the
\* character after it, so a quote is escaped by an odd run of backslashes
UnescapedQuotes(s) ==
  { i \in 1..Len(s) : s[i] = "'" /\ BackslashesBefore(s, i) % 2 = 0 }

\* what follows the opening quote of LOWER({field}) = '...': the value
\* segment and the closing quote of the template
QuotedPart(f) == SubSeq(f, 4, Len(f))

\* C12 as stated: for every lookup value, the equality formula built from it
\* has no unescaped single quote inside the value segment: the only unescaped
\* quote after the opening one is the closing quote of the template.
C12_NoUnescapedQuote ==
  (script = "formula" /\ pc = "returned") =>
    UnescapedQuotes(QuotedPart(lookup_formula)) = {Len(QuotedPart(lookup_formula))}

\* the quoted literals of the formula of a request, each with its closing
\* quote: the lookup value, the timestamp of incremental mode, the identifiers
\* of a linked-record request
Literals(req) ==
  CASE req.kind = "search" -> {SubSeq(req.formula, 4, Len(req.formula))}
    [] req.kind = "page" ->
         IF req.formula = None THEN {}
         ELSE {SubSeq(req.formula, 2, Len(req.formula) - 1)}
    [] OTHER ->
         { ReferencedIds(req.formula)[i] \o <<"'">> : i \in 1..Len(ReferencedIds(req.formula)) }

\* C13 as stated: in every formula sent to the remote by either script, the
\* single quotes of every interpolated literal (lookup value, after_timestamp,
\* linked-record identifiers) are escaped: the only unescaped quote of a
\* literal is the one that closes it.
C13_LiteralsEscaped ==
  \A i \in 1..Len(requests) :
    \A lit \in Literals(requests[i]) : UnescapedQuotes(lit) = {Len(lit)}

\* C14: a successful bootstrap run reports meta.total_records equal to the
\* number of records on all pages of the view and to the length of matches,
\* reports meta.mode "bootstrap", issues no linked-record request and returns
\* no record with an expanded key, whatever linked fields the records hold.
C14_Bootstrap ==
  (script = "tracker" /\ Succeeded /\ mode = S_bootstrap) =>
    /\ Envelope.meta.total_records = Len(AllPages)
    /\ Envelope.meta.total_records = Len(Envelope.matches)
    /\ Envelope.meta.mode = <<"b", "o", "o", "t", "s", "t", "r", "a", "p">>
    /\ RequestsOfKind("linked") = <<>>
    /\ Len(requests) = Len(remote_pages)
    /\ NoneExpanded

C14_Witness ==
  /\ script = "tracker" /\ Succeeded /\ mode = S_bootstrap
  /\ Len(remote_pages) = 3
  /\ Envelope.meta.total_records >= 3
  /\ \E i \in 1..Len(Envelope.matches) :
       FieldOr(Envelope.matches[i].fields, APPLICATIONS, <<>>) # <<>>

\* the field of the payload, trimmed and lower-cased, is none of the allowed
\* names
UnsupportedField ==
  /\ stdin.kind = "object"
  /\ Lower(Strip(PyStr(GetOrEmpty(stdin.m.field))))
       \notin {S_email, S_orderid, S_order_id, S_phone}

\* C15 as stated: a point lookup whose field is not an allowed name ends with
\* an error envelope of code INPUT_ERROR, whatever the value and whether or
\* not the credentials are configured.
C15_UnsupportedField ==
  (script = "lookup" /\ UnsupportedField /\ Terminated) =>
    /\ pc = "exited" /\ Len(stdout) = 1
    /\ Envelope.status = "error"
    /\ Envelope.code = "INPUT_ERROR"

\* the mode of the payload, lower-cased
InputMode == IF stdin.m.mode.t = "str" THEN Lower(stdin.m.mode.v) ELSE <<>>

\* the payload is an object with a non-empty view_id and a missing or empty
\* after_timestamp
NoTimestamp ==
  /\ stdin.kind = "object"
  /\ stdin.m.view_id.t = "str" /\ stdin.m.view_id.v # <<>>
  /\ \/ stdin.m.after_timestamp.t = "absent"
     \/ stdin.m.after_timestamp = JStr(<<>>)

\* C16: a bulk sync of mode incremental with a valid view_id and a missing or
\* empty after_timestamp ends with an error envelope of code INPUT_ERROR,
\* with or without credentials, before any request; with mode bootstrap the
\* same payload is no input error: the run ends with CONFIGURATION_ERROR
\* without credentials and otherwise with the outcome of the fetch.
C16_TimestampRequired ==
  (script = "tracker" /\ NoTimestamp /\ Terminated) =>
    /\ InputMode = S_incremental =>
         /\ pc = "exited" /\ Len(stdout) = 1
         /\ Envelope.status = "error"
         /\ Envelope.code = "INPUT_ERROR"
         /\ requests = <<>>
    /\ InputMode = S_bootstrap =>
         /\ pc = "exited" /\ Len(stdout) = 1
         /\ Envelope.status = "error" => Envelope.code # "INPUT_ERROR"
         /\ ~creds <=> (Envelope.status = "error" /\ Envelope.code = "CONFIGURATION_ERROR")
         /\ (creds /\ \A i \in 1..Len(responses) : responses[i].outcome = "ok")
              => Envelope.status = "ok"

C16_Witness ==
  /\ script = "tracker" /\ NoTimestamp /\ Terminated
  /\ InputMode = S_incremental
  /\ stdin.m.after_timestamp = JStr(<<>>)
  /\ ~creds
  /\ Envelope.code = "INPUT_ERROR"

\* a primary search met a timeout, a connection error or a non-2xx status
TransportFailure ==
  \E i \in 1..Len(requests) :
    requests[i].kind = "search" /\ responses[i].outcome \in {"timeout", "http_error"}

\* C17 as stated: when the primary query of a point lookup fails at the
\* transport or HTTP layer, the run ends with an error envelope of code
\* API_ERROR, on the client library as on direct REST; QUERY_ERROR is reported
\* only for other failures.
C17_TransportIsApiError ==
  (script = "lookup" /\ Terminated /\ TransportFailure) =>
    /\ pc = "exited" /\ Len(stdout) = 1
    /\ Envelope.status = "error"
    /\ Envelope.code = "API_ERROR"

\* the non-empty "Completed Timestamp" values of the returned records
ReturnedTimestamps ==
  { FieldOr(Envelope.matches[i].fields, "Completed Timestamp", <<>>) :
      i \in 1..Len(Envelope.matches) } \ {<<>>}

\* C18: in a successful incremental run meta.newest_completed_timestamp is
\* the greatest, in string order, of the non-empty "Completed Timestamp"
\* values of the returned records, and the key is absent exactly when no
\* returned record has such a value.
C18_NewestTimestamp ==
  (script = "tracker" /\ Succeeded /\ mode = S_incremental) =>
    /\ "newest_completed_timestamp" \in DOMAIN Envelope.meta <=> ReturnedTimestamps # {}
    /\ "newest_completed_timestamp" \in DOMAIN Envelope.meta =>
         /\ Envelope.meta.newest_completed_timestamp \in ReturnedTimestamps
         /\ \A u \in ReturnedTimestamps :
              StrLessEq(u, Envelope.meta.newest_completed_timestamp)

C18_Witness ==
  /\ script = "tracker" /\ Succeeded /\ mode = S_incremental
  /\ {<<"9">>, <<"1", "0">>} \subseteq ReturnedTimestamps
  /\ Envelope.meta.newest_completed_timestamp = <<"9">>
  /\ FieldOr(Envelope.matches[Len(Envelope.matches)].fields, "Completed Timestamp", <<>>)
       = <<"1", "0">>

\* C19 as stated: the phone-variant retry is made for every spelling of the
\* field that normalise_field maps to the Phone field: a run whose field was
\* accepted as Phone, whose first search returned zero records and whose
\* value begins with "972" and has at least 4 characters ends after a second
\* search, of the alternate form.
C19_RetryForEverySpelling ==
  (/\ script = "lookup" /\ Terminated
   /\ field_name = "Phone"
   /\ Len(searches) >= 1 /\ searches[1].ok /\ searches[1].records = <<>>
   /\ StartsWith(value, <<"9", "7", "2">>) /\ Len(value) >= 4) =>
    /\ Len(searches) = 2
    /\ searches[2].value = Alternate(value)

\* the payload passes every input check of its script
ValidLookupInput ==
  /\ stdin.kind = "object"
  /\ ~UnsupportedField
  /\ Strip(PyStr(Or(Get(stdin.m.value), GetOrEmpty(stdin.m.key)))) # <<>>

ValidTrackerInput ==
  /\ stdin.kind = "object"
  /\ InputMode \in {S_bootstrap, S_incremental}
  /\ Truthy(stdin.m.view_id)
  /\ InputMode = S_incremental => Truthy(stdin.m.after_timestamp)

\* C20: in both scripts every input and configuration check precedes the
\* first remote request: an envelope of code INPUT_ERROR or
\* CONFIGURATION_ERROR is written only by a run that has issued no request,
\* and a request is issued only with the credentials set and a payload that
\* passes every input check.
C20_ChecksBeforeRequests ==
  script \in {"lookup", "tracker"} =>
    /\ \A i \in 1..Len(stdout) :
         (stdout[i].status = "error"
            /\ stdout[i].code \in {"INPUT_ERROR", "CONFIGURATION_ERROR"})
           => requests = <<>>
    /\ requests # <<>> =>
         /\ creds
         /\ script = "lookup" => ValidLookupInput
         /\ script = "tracker" => ValidTrackerInput

C20_Witness ==
  /\ script = "lookup" /\ pc = "exited"
  /\ creds /\ UnsupportedField
  /\ value # <<>>
  /\ Envelope.code = "INPUT_ERROR"
  /\ requests = <<>>

LinkedRequests == RequestsOfKind("linked")

\* the linked field a table is configured for
FieldOfTable(table) == IF table = APPLICATIONS_TABLE THEN APPLICATIONS ELSE TRANSACTIONS

LinkedRequestsGated ==
  script = "lookup" =>
    /\ Len(LinkedRequests) <= 2
    /\ \A i, j \in 1..Len(LinkedRequests) :
         i # j => LinkedRequests[i].table # LinkedRequests[j].table
    /\ \A i \in 1..Len(requests) :
         requests[i].kind = "linked" =>
           /\ requests[i].table \in {APPLICATIONS_TABLE, TRANSACTIONS_TABLE}
           /\ Len(searches) >= 1 /\ searches[Len(searches)].ok
           /\ Len(Matched) = 1
           /\ FieldOr(Matched[1].fields, FieldOfTable(requests[i].table), <<>>) # <<>>
           /\ \A j \in 1..Len(requests) : requests[j].kind = "search" => j < i
    /\ (Len(searches) >= 1 /\ Len(Matched) # 1) => LinkedRequests = <<>>

\* C21: a point lookup issues linked-record requests only when exactly one
\* record matched, at most one per configured linked field (at most 2 in
\* all), each for a non-empty identifier list of the matched record and each
\* after the last primary search; with zero or with two or more matches it
\* issues none.
C21_LinkedRequestsGated ==
  /\ []LinkedRequestsGated
  /\ [][(script = "lookup" /\ LinkedRequests # <<>>)
         => (searches' = searches /\ RequestsOfKind("search")' = RequestsOfKind("search"))]_vars

C21_Witness ==
  /\ script = "lookup" /\ Succeeded
  /\ Len(searches) = 2 /\ Len(Matched) = 1
  /\ Len(requests) = 4
  /\ requests[2].kind = "search"
  /\ requests[3].kind = "linked" /\ requests[3].table = APPLICATIONS_TABLE
  /\ requests[4].kind = "linked" /\ requests[4].table = TRANSACTIONS_TABLE

====
